---- MODULE Spec2Model ----
(***************************************************************************)
(* Model of the block-identity layer (primitives/src/block_header.rs) and  *)
(* of the public-key layer (keys/src/public.rs) of rust-eos.               *)
(*                                                                         *)
(* Representation.  A byte is a number in 0..255 and a byte string is a    *)
(* sequence of bytes.  A fixed-width machine integer (u32, u64) is the     *)
(* sequence of its base-256 digits, most significant digit first, so that  *)
(* 0xffffffff00000000 is <<255,255,255,255,0,0,0,0>> and every width is    *)
(* exact.  A Rust call returns Ok(val), Err(err) or panics; the model      *)
(* keeps the three apart in a record [kind, ...].                          *)
(***************************************************************************)
EXTENDS Integers, Sequences, FiniteSets

VARIABLES
    overflow_checks,  \* build profile: TRUE = arithmetic overflow panics (debug)
    chain,            \* the headers built so far, each linked to the one before
    hcall,            \* the last call made on a header, with its result
    pk,               \* the PublicKey the caller holds (a Result, or none yet)
    kcall             \* the last call made on the key layer, with its result

hvars == <<overflow_checks, chain, hcall>>
kvars == <<pk, kcall>>
vars == <<overflow_checks, chain, hcall, pk, kcall>>

(***************************************************************************)
(* Results                                                                 *)
(***************************************************************************)
Ok(v) == [kind |-> "Ok", val |-> v]
Err(e) == [kind |-> "Err", err |-> e]
Panic == [kind |-> "Panic"]
NoCall == [op |-> "none", ret |-> [kind |-> "None"]]

\* errors: <<variant of error::Error, name of the inner error, its fields>>
InvalidPublicKey == <<"Secp256k1", "InvalidPublicKey", <<>> >>
IncorrectSignature == <<"Secp256k1", "IncorrectSignature", <<>> >>
InvalidMessage == <<"Secp256k1", "InvalidMessage", <<>> >>
InvalidLength(len) == <<"Base58", "InvalidLength", <<len>> >>
BadByte(c) == <<"Base58", "BadByte", <<c>> >>
BadChecksum(expected, actual) == <<"Base58", "BadChecksum", <<expected, actual>> >>

(***************************************************************************)
(* Bytes and machine integers                                              *)
(***************************************************************************)
RECURSIVE BitAnd(_, _)
BitAnd(a, b) ==
    IF a = 0 \/ b = 0 THEN 0
    ELSE (a % 2) * (b % 2) + 2 * BitAnd(a \div 2, b \div 2)

\* x & m on two integers of the same width
AndDigits(x, m) == [i \in 1..Len(x) |-> BitAnd(x[i], m[i])]

\* carry out of the digits to the right of position i when adding a and b
RECURSIVE CarryFrom(_, _, _)
CarryFrom(a, b, i) ==
    IF i >= Len(a) THEN 0
    ELSE (a[i + 1] + b[i + 1] + CarryFrom(a, b, i + 1)) \div 256

\* a + b on two integers of the same width: the wrapped sum and the carry out
AddDigits(a, b) ==
    [digits |-> [i \in 1..Len(a) |-> (a[i] + b[i] + CarryFrom(a, b, i)) % 256],
     carry |-> CarryFrom(a, b, 0)]

Zeros(n) == [i \in 1..n |-> 0]
Fill(n, b) == [i \in 1..n |-> b]
U32One == <<0, 0, 0, 1>>

\* the little-endian bytes of a small number n, in a field of `width` bytes
RECURSIVE LEBytes(_, _)
LEBytes(n, width) ==
    IF width = 0 THEN <<>> ELSE <<n % 256>> \o LEBytes(n \div 256, width - 1)

Reverse(s) == [i \in 1..Len(s) |-> s[Len(s) + 1 - i]]

(***************************************************************************)
(* Hash capability (external): SHA-256 is a deterministic function from    *)
(* byte strings to 32 bytes.  The stand-in keeps that and spreads every    *)
(* input byte over the whole output.                                       *)
(***************************************************************************)
RECURSIVE WeightedSum(_, _, _)
WeightedSum(bytes, lo, hi) ==
    IF lo > hi THEN 0
    ELSE IF lo = hi THEN ((2 * lo + 1) * bytes[lo]) % 65536
    ELSE LET mid == (lo + hi) \div 2
         IN  (WeightedSum(bytes, lo, mid) + WeightedSum(bytes, mid + 1, hi)) % 65536

\* the 8-bit mix of w that lands in output byte i
Mix(w, i, a, b) == ((w + a) * (2 * i + 1) + b * i) % 256

Sha256(bytes) ==
    LET w == WeightedSum(bytes, 1, Len(bytes))
    IN  <<Mix(w, 1, 101, 13), Mix(w, 2, 101, 13), Mix(w, 3, 101, 13), Mix(w, 4, 101, 13)>>
        \o [i \in 1..28 |-> Mix(w, i + 4, 101, 13)]

(***************************************************************************)
(* Checksum256 and bitutil                                                 *)
(***************************************************************************)
\* Checksum256::hash0: the leading 8 bytes read as a little-endian u64
hash0(c) == [i \in 1..8 |-> c[9 - i]]

\* Checksum256::set_hash0: the leading 8 bytes overwritten, the rest kept
set_hash0(c, w) == [i \in 1..32 |-> IF i <= 8 THEN w[9 - i] ELSE c[i]]

\* bitutil::endian_reverse_u32
endian_reverse_u32(x) == <<x[4], x[3], x[2], x[1]>>

\* `as u32` of a u64, `as u64` of a u32
AsU32(w) == SubSeq(w, 5, 8)
AsU64(x) == Zeros(4) \o x

\* u32 `+ 1`: panics when overflow checks are on, wraps otherwise
U32AddOne(x) ==
    LET s == AddDigits(x, U32One)
    IN  IF s.carry = 1 /\ overflow_checks THEN Panic ELSE Ok(s.digits)

\* u64 `+=`: the same rule at 64 bits
U64Add(a, b) ==
    LET s == AddDigits(a, b)
    IN  IF s.carry = 1 /\ overflow_checks THEN Panic ELSE Ok(s.digits)

HighMask == <<255, 255, 255, 255, 0, 0, 0, 0>>

(***************************************************************************)
(* BlockHeader                                                             *)
(***************************************************************************)
\* the derived Write: the fields in declaration order, integers little-endian,
\* an absent option as one 0 byte, an empty vector as a 0 length prefix
serialize(h) ==
    LEBytes(h.timestamp, 4) \o LEBytes(h.producer, 8) \o LEBytes(h.confirmed, 2)
    \o h.previous \o h.transaction_mroot \o h.action_mroot
    \o LEBytes(h.schedule_version, 4) \o <<0>> \o <<0>>

digest(h) == Ok(Sha256(serialize(h)))

num_from_id(i) == endian_reverse_u32(AsU32(hash0(i)))

block_num(h) == U32AddOne(num_from_id(h.previous))

\* id with the low 32 bits of hash0 left as the digest had them
id_unmasked(h) ==
    LET result == digest(h)
        n == block_num(h)
    IN  IF result.kind # "Ok" THEN result
        ELSE IF n.kind = "Panic" THEN Panic
        ELSE LET sum == U64Add(hash0(result.val), AsU64(endian_reverse_u32(n.val)))
             IN  IF sum.kind = "Panic" THEN Panic
                 ELSE Ok(set_hash0(result.val, sum.val))

\* id with the mask of the other half of hash0
id_low_mask(h) ==
    LET result == digest(h)
        n == block_num(h)
    IN  IF result.kind # "Ok" THEN result
        ELSE IF n.kind = "Panic" THEN Panic
        ELSE LET masked == AndDigits(hash0(result.val), Reverse(HighMask))
                 sum == U64Add(masked, AsU64(endian_reverse_u32(n.val)))
             IN  IF sum.kind = "Panic" THEN Panic
                 ELSE Ok(set_hash0(result.val, sum.val))

id(h) ==
    LET result == digest(h)
        n == block_num(h)
    IN  IF result.kind # "Ok" THEN result
        ELSE IF n.kind = "Panic" THEN Panic
        ELSE LET masked == AndDigits(hash0(result.val), HighMask)
                 sum == U64Add(masked, AsU64(endian_reverse_u32(n.val)))
             IN  IF sum.kind = "Panic" THEN Panic
                 ELSE Ok(set_hash0(result.val, sum.val))

(***************************************************************************)
(* BlockHeaderV1: the same three functions, written out again in the       *)
(* source                                                                  *)
(***************************************************************************)
digest_V1(h) == Ok(Sha256(serialize(h)))

num_from_id_V1(i) == endian_reverse_u32(AsU32(hash0(i)))

block_num_V1(h) == U32AddOne(num_from_id_V1(h.previous))

id_V1(h) ==
    LET result == digest_V1(h)
        n == block_num_V1(h)
    IN  IF result.kind # "Ok" THEN result
        ELSE IF n.kind = "Panic" THEN Panic
        ELSE LET masked == AndDigits(hash0(result.val), HighMask)
                 sum == U64Add(masked, AsU64(endian_reverse_u32(n.val)))
             IN  IF sum.kind = "Panic" THEN Panic
                 ELSE Ok(set_hash0(result.val, sum.val))

\* dispatch on the header's type
HeaderId(h) == IF h.ty = "BlockHeader" THEN id(h) ELSE id_V1(h)
HeaderBlockNum(h) == IF h.ty = "BlockHeader" THEN block_num(h) ELSE block_num_V1(h)
HeaderNumFromId(ty, i) == IF ty = "BlockHeader" THEN num_from_id(i) ELSE num_from_id_V1(i)
HeaderDigest(h) == IF h.ty = "BlockHeader" THEN digest(h) ELSE digest_V1(h)

(***************************************************************************)
(* Inputs of the header layer                                              *)
(***************************************************************************)
MaxChain == 2
MaxProducer == 2

HeaderTypes == {"BlockHeader", "BlockHeaderV1"}

\* block numbers a `previous` id may carry in its first four bytes
PrevNums ==
    { <<0, 0, 0, 0>>, <<0, 0, 0, 1>>, <<0, 0, 0, 255>>, <<0, 0, 255, 255>>,
      <<1, 2, 3, 4>>, <<127, 255, 255, 255>>, <<255, 255, 255, 254>>,
      <<255, 255, 255, 255>> }

\* the other 28 bytes of a `previous` id
PrevTails == { Fill(28, 0), Fill(4, 255) \o [i \in 1..24 |-> 7 * i] }

PrevIds == { n \o t : n \in PrevNums, t \in PrevTails }

Header(ty, producer, previous) ==
    [ty |-> ty, timestamp |-> 1000 + producer, producer |-> producer,
     confirmed |-> 0, previous |-> previous,
     transaction_mroot |-> Zeros(32), action_mroot |-> Zeros(32),
     schedule_version |-> 1]

Panicked == hcall.ret.kind = "Panic" \/ kcall.ret.kind = "Panic"

(***************************************************************************)
(* Actions of the header layer                                             *)
(***************************************************************************)
\* BlockHeader::new with an arbitrary `previous`
NewHeader ==
    /\ ~Panicked
    /\ chain = <<>>
    /\ \E ty \in HeaderTypes, p \in 1..MaxProducer, prev \in PrevIds :
          chain' = <<Header(ty, p, prev)>>
    /\ hcall' = NoCall
    /\ UNCHANGED <<overflow_checks, kvars>>

\* the next header of the chain, of the same type: previous is the id of the
\* last one
LinkHeader ==
    /\ ~Panicked
    /\ chain # <<>>
    /\ Len(chain) < MaxChain
    /\ LET r == HeaderId(chain[Len(chain)])
       IN  \E p \in 1..MaxProducer :
              IF r.kind = "Ok"
              THEN /\ chain' = Append(chain, Header(chain[1].ty, p, r.val))
                   /\ hcall' = [op |-> "id", at |-> Len(chain), ret |-> r]
              ELSE /\ chain' = chain
                   /\ hcall' = [op |-> "id", at |-> Len(chain), ret |-> r]
    /\ UNCHANGED <<overflow_checks, kvars>>

CallId ==
    /\ ~Panicked
    /\ \E i \in 1..Len(chain) :
          hcall' = [op |-> "id", at |-> i, ret |-> HeaderId(chain[i])]
    /\ UNCHANGED <<overflow_checks, chain, kvars>>

CallBlockNum ==
    /\ ~Panicked
    /\ \E i \in 1..Len(chain) :
          hcall' = [op |-> "block_num", at |-> i, ret |-> HeaderBlockNum(chain[i])]
    /\ UNCHANGED <<overflow_checks, chain, kvars>>

\* num_from_id on the id the last call returned
CallNumFromId ==
    /\ ~Panicked
    /\ hcall.op = "id"
    /\ hcall.ret.kind = "Ok"
    /\ hcall' = [op |-> "num_from_id", at |-> hcall.at,
                 ret |-> Ok(HeaderNumFromId(chain[hcall.at].ty, hcall.ret.val))]
    /\ UNCHANGED <<overflow_checks, chain, kvars>>

HeaderNext == NewHeader \/ LinkHeader \/ CallId \/ CallBlockNum \/ CallNumFromId


(***************************************************************************)
(* Text: a string is the sequence of its characters                        *)
(***************************************************************************)
Alphabet ==
    << "1", "2", "3", "4", "5", "6", "7", "8", "9",
       "A", "B", "C", "D", "E", "F", "G", "H", "J", "K", "L", "M", "N", "P",
       "Q", "R", "S", "T", "U", "V", "W", "X", "Y", "Z",
       "a", "b", "c", "d", "e", "f", "g", "h", "i", "j", "k", "m", "n", "o",
       "p", "q", "r", "s", "t", "u", "v", "w", "x", "y", "z" >>

HexDigits ==
    << "0", "1", "2", "3", "4", "5", "6", "7", "8", "9",
       "a", "b", "c", "d", "e", "f" >>

Radix == Len(Alphabet)

starts_with(s, prefix) ==
    Len(s) >= Len(prefix) /\ SubSeq(s, 1, Len(prefix)) = prefix

Tail3(s) == SubSeq(s, 4, Len(s))

\* how many copies of x the sequence s starts with
LeadingCount(s, x) ==
    IF \A i \in 1..Len(s) : s[i] = x THEN Len(s)
    ELSE (CHOOSE i \in 1..Len(s) : s[i] # x /\ \A j \in 1..(i - 1) : s[j] = x) - 1

StripLeading(s, x) == SubSeq(s, LeadingCount(s, x) + 1, Len(s))

(***************************************************************************)
(* base58: big-number conversion between base 256 and base 58, a leading   *)
(* zero byte standing for a leading '1'.  Both directions are Horner's     *)
(* rule, num := num * from_base + digit, on a number kept in the target    *)
(* base with its least significant digit first.  The loops of the code     *)
(* are folded by halves so that the evaluation stays shallow.              *)
(***************************************************************************)
\* a carry written out in digits of `base`, least significant first
RECURSIVE CarryDigits(_, _)
CarryDigits(carry, base) ==
    IF carry = 0 THEN <<>>
    ELSE <<carry % base>> \o CarryDigits(carry \div base, base)

\* digits lo..hi of num * mult + carry, and the carry out of them
RECURSIVE MulAddRange(_, _, _, _, _, _)
MulAddRange(num, lo, hi, mult, carry, base) ==
    IF lo > hi THEN [d |-> <<>>, c |-> carry]
    ELSE IF lo = hi
    THEN LET cur == num[lo] * mult + carry
         IN  [d |-> <<cur % base>>, c |-> cur \div base]
    ELSE LET mid == (lo + hi) \div 2
             low == MulAddRange(num, lo, mid, mult, carry, base)
         IN  IF low.c < 0 THEN low   \* never: the test has the low half computed first
             ELSE LET high == MulAddRange(num, mid + 1, hi, mult, low.c, base)
                  IN  [d |-> low.d \o high.d, c |-> high.c]

\* num * mult + add
MulAdd(num, mult, add, base) ==
    LET r == MulAddRange(num, 1, Len(num), mult, add, base)
    IN  r.d \o CarryDigits(r.c, base)

\* Horner's rule over digits lo..hi of ds (most significant first)
RECURSIVE Horner(_, _, _, _, _, _)
Horner(ds, lo, hi, num, from_base, base) ==
    IF lo > hi THEN num
    ELSE IF lo = hi THEN MulAdd(num, from_base, ds[lo], base)
    ELSE LET mid == (lo + hi) \div 2
             left == Horner(ds, lo, mid, num, from_base, base)
         IN  IF Len(left) < 0 THEN left   \* never: has the left half computed first
             ELSE Horner(ds, mid + 1, hi, left, from_base, base)

\* the digits of a number in another base, most significant first, no leading 0
Rebase(ds, from_base, base) ==
    StripLeading(Reverse(Horner(ds, 1, Len(ds), <<>>, from_base, base)), 0)

\* the digit a character stands for, or -1
DigitOf(c) ==
    IF \E i \in 1..Radix : Alphabet[i] = c
    THEN (CHOOSE i \in 1..Radix : Alphabet[i] = c) - 1
    ELSE -1

\* base58::encode_slice
encode_slice(data) ==
    LET digits == Rebase(data, 256, Radix)
    IN  [i \in 1..LeadingCount(data, 0) |-> Alphabet[1]]
        \o [i \in 1..Len(digits) |-> Alphabet[digits[i] + 1]]

\* base58::from
base58_from(s) ==
    IF \E i \in 1..Len(s) : DigitOf(s[i]) < 0
    THEN LET bad == CHOOSE i \in 1..Len(s) :
                       DigitOf(s[i]) < 0 /\ \A j \in 1..(i - 1) : DigitOf(s[j]) >= 0
         IN  Err(BadByte(s[bad]))
    ELSE LET digits == [i \in 1..Len(s) |-> DigitOf(s[i])]
         IN  Ok(Zeros(LeadingCount(s, Alphabet[1])) \o Rebase(digits, Radix, 256))

(***************************************************************************)
(* Hash and elliptic-curve capabilities (external).  RIPEMD-160 is a       *)
(* deterministic function to 20 bytes; the stand-in changes its first      *)
(* byte whenever a single input byte changes.  A curve point is an         *)
(* abstract value with its two encodings; a secret key sk owns the point   *)
(* derive_public(sk); a standard signature is valid for (point, hash)      *)
(* exactly when it is the one signature the owner's secret makes of hash.  *)
(***************************************************************************)
NPoints == 3

Ripemd160(bytes) ==
    LET w == WeightedSum(bytes, 1, Len(bytes))
    IN  <<Mix(w, 1, 57, 29), Mix(w, 2, 57, 29), Mix(w, 3, 57, 29), Mix(w, 4, 57, 29)>>
        \o [i \in 1..16 |-> Mix(w, i + 4, 57, 29)]

SecretKeys == 1..NPoints
derive_public(sk) == 100 + sk
Points == { derive_public(sk) : sk \in SecretKeys }
SecretOf(p) == p - 100

PointX(p) == [i \in 1..32 |-> (p * 37 + i * 11) % 256]
PointY(p) == [i \in 1..32 |-> (p * 91 + i * 5 + p * i) % 256]

\* secp256k1::PublicKey::serialize and serialize_uncompressed
key_serialize(p) == <<2 + (PointY(p)[32] % 2)>> \o PointX(p)
key_serialize_uncompressed(p) == <<4>> \o PointX(p) \o PointY(p)

\* secp256k1::PublicKey::from_slice
ec_from_slice(data) ==
    IF \E p \in Points : data = key_serialize(p) \/ data = key_serialize_uncompressed(p)
    THEN Ok(CHOOSE p \in Points :
                data = key_serialize(p) \/ data = key_serialize_uncompressed(p))
    ELSE Err(InvalidPublicKey)

MESSAGE_SIZE == 32

\* secp256k1::Message::from_slice
Message_from_slice(hash) ==
    IF Len(hash) = MESSAGE_SIZE THEN Ok(hash) ELSE Err(InvalidMessage)

EcSign(sk, msg) ==
    <<(sk * 7919 + WeightedSum(msg, 1, Len(msg))) % 65521, WeightedSum(msg, 1, Len(msg)) % 251>>

\* Secp256k1::verify
secp_verify(msg, sig, p) ==
    IF sig = EcSign(SecretOf(p), msg) THEN Ok(<<>>) ELSE Err(IncorrectSignature)

\* Signature::to_standard: the recovery id is dropped
to_standard(signature) == signature.rs

\* byteorder::LittleEndian::read_u32
LittleEndian_read_u32(b) == <<b[4], b[3], b[2], b[1]>>

(***************************************************************************)
(* PublicKey                                                               *)
(***************************************************************************)
PUBLIC_KEY_SIZE == 33
UNCOMPRESSED_PUBLIC_KEY_SIZE == 65
PUBLIC_KEY_CHECKSUM_SIZE == 4
PUBLIC_KEY_WITH_CHECKSUM_SIZE == PUBLIC_KEY_SIZE + PUBLIC_KEY_CHECKSUM_SIZE

EOS == <<"E", "O", "S">>

PublicKey(compressed, key) == [compressed |-> compressed, key |-> key]

\* write_into a Vec: the compressed or the uncompressed encoding
write_into(self) ==
    IF self.compressed THEN key_serialize(self.key)
    ELSE key_serialize_uncompressed(self.key)

to_bytes(self) == write_into(self)

\* copy_from_slice panics unless source and destination have the same length
to_eos_fmt(self) ==
    LET h160 == Ripemd160(key_serialize(self.key))
        src == to_bytes(self)
    IN  IF Len(src) # PUBLIC_KEY_SIZE THEN Panic
        ELSE Ok(EOS \o encode_slice(src \o SubSeq(h160, 1, PUBLIC_KEY_CHECKSUM_SIZE)))

\* verify handing the message itself to verify_hash, not its hash
verify_unhashed(self, message_slice, signature) ==
    LET msg == Message_from_slice(message_slice)
    IN  IF msg.kind # "Ok" THEN Panic
        ELSE secp_verify(msg.val, to_standard(signature), self.key)

verify_hash(self, hash, signature) ==
    LET msg == Message_from_slice(hash)
    IN  IF msg.kind # "Ok" THEN Panic   \* unwrap
        ELSE secp_verify(msg.val, to_standard(signature), self.key)

verify(self, message_slice, signature) ==
    verify_hash(self, Sha256(message_slice), signature)

\* from_slice leaving every length to the curve library
from_slice_any_length(data) ==
    LET compressed == Len(data) = PUBLIC_KEY_SIZE
        key == ec_from_slice(data)
    IN  [ret |-> IF key.kind = "Ok" THEN Ok(PublicKey(compressed, key.val)) ELSE key,
         ec |-> <<"parse_point">>]

\* the result, and the capability calls made on the way
from_slice(data) ==
    IF Len(data) # PUBLIC_KEY_SIZE /\ Len(data) # UNCOMPRESSED_PUBLIC_KEY_SIZE
    THEN [ret |-> Err(InvalidLength(Len(data))), ec |-> <<>>]
    ELSE LET compressed == Len(data) = PUBLIC_KEY_SIZE
             key == ec_from_slice(data)
         IN  [ret |-> IF key.kind = "Ok" THEN Ok(PublicKey(compressed, key.val)) ELSE key,
              ec |-> <<"parse_point">>]

\* Display::fmt, which to_string returns
fmt(self) ==
    IF self.compressed THEN to_eos_fmt(self)
    ELSE LET bytes == key_serialize_uncompressed(self.key)
         IN  Ok([i \in 1..(2 * Len(bytes)) |->
                    IF i % 2 = 1 THEN HexDigits[(bytes[(i + 1) \div 2] \div 16) + 1]
                    ELSE HexDigits[(bytes[i \div 2] % 16) + 1]])

\* from_str taking the checksum one byte early
from_str_early_checksum(s) ==
    IF ~starts_with(s, EOS) THEN [ret |-> Err(InvalidPublicKey), ec |-> <<>>]
    ELSE LET s_hex == base58_from(Tail3(s))
         IN  IF s_hex.kind # "Ok" THEN [ret |-> s_hex, ec |-> <<>>]
             ELSE IF Len(s_hex.val) # PUBLIC_KEY_WITH_CHECKSUM_SIZE
             THEN [ret |-> Err(InvalidPublicKey), ec |-> <<>>]
             ELSE LET raw == SubSeq(s_hex.val, 1, PUBLIC_KEY_SIZE)
                      expected == LittleEndian_read_u32(SubSeq(Ripemd160(raw), 1, 4))
                      actual == LittleEndian_read_u32(
                                    SubSeq(s_hex.val, PUBLIC_KEY_SIZE,
                                           PUBLIC_KEY_WITH_CHECKSUM_SIZE - 1))
                  IN  IF expected # actual
                      THEN [ret |-> Err(BadChecksum(expected, actual)),
                            ec |-> <<"ripemd160">>]
                      ELSE LET key == ec_from_slice(raw)
                           IN  [ret |-> IF key.kind = "Ok"
                                        THEN Ok(PublicKey(TRUE, key.val)) ELSE key,
                                ec |-> <<"ripemd160", "parse_point">>]

\* from_str parsing the point before it compares the checksum
from_str_point_first(s) ==
    IF ~starts_with(s, EOS) THEN [ret |-> Err(InvalidPublicKey), ec |-> <<>>]
    ELSE LET s_hex == base58_from(Tail3(s))
         IN  IF s_hex.kind # "Ok" THEN [ret |-> s_hex, ec |-> <<>>]
             ELSE IF Len(s_hex.val) # PUBLIC_KEY_WITH_CHECKSUM_SIZE
             THEN [ret |-> Err(InvalidPublicKey), ec |-> <<>>]
             ELSE LET raw == SubSeq(s_hex.val, 1, PUBLIC_KEY_SIZE)
                      key == ec_from_slice(raw)
                      expected == LittleEndian_read_u32(SubSeq(Ripemd160(raw), 1, 4))
                      actual == LittleEndian_read_u32(
                                    SubSeq(s_hex.val, PUBLIC_KEY_SIZE + 1,
                                           PUBLIC_KEY_WITH_CHECKSUM_SIZE))
                  IN  IF key.kind # "Ok"
                      THEN [ret |-> key, ec |-> <<"parse_point">>]
                      ELSE IF expected # actual
                      THEN [ret |-> Err(BadChecksum(expected, actual)),
                            ec |-> <<"parse_point", "ripemd160">>]
                      ELSE [ret |-> Ok(PublicKey(TRUE, key.val)),
                            ec |-> <<"parse_point", "ripemd160">>]

\* from_str reporting a wrong decoded length as a length error
from_str_length_error(s) ==
    IF ~starts_with(s, EOS) THEN [ret |-> Err(InvalidPublicKey), ec |-> <<>>]
    ELSE LET s_hex == base58_from(Tail3(s))
         IN  IF s_hex.kind # "Ok" THEN [ret |-> s_hex, ec |-> <<>>]
             ELSE IF Len(s_hex.val) # PUBLIC_KEY_WITH_CHECKSUM_SIZE
             THEN [ret |-> Err(InvalidLength(Len(s_hex.val))), ec |-> <<>>]
             ELSE LET raw == SubSeq(s_hex.val, 1, PUBLIC_KEY_SIZE)
                      expected == LittleEndian_read_u32(SubSeq(Ripemd160(raw), 1, 4))
                      actual == LittleEndian_read_u32(
                                    SubSeq(s_hex.val, PUBLIC_KEY_SIZE + 1,
                                           PUBLIC_KEY_WITH_CHECKSUM_SIZE))
                  IN  IF expected # actual
                      THEN [ret |-> Err(BadChecksum(expected, actual)),
                            ec |-> <<"ripemd160">>]
                      ELSE LET key == ec_from_slice(raw)
                           IN  [ret |-> IF key.kind = "Ok"
                                        THEN Ok(PublicKey(TRUE, key.val)) ELSE key,
                                ec |-> <<"ripemd160", "parse_point">>]

from_str(s) ==
    IF ~starts_with(s, EOS) THEN [ret |-> Err(InvalidPublicKey), ec |-> <<>>]
    ELSE LET s_hex == base58_from(Tail3(s))
         IN  IF s_hex.kind # "Ok" THEN [ret |-> s_hex, ec |-> <<>>]
             ELSE IF Len(s_hex.val) # PUBLIC_KEY_WITH_CHECKSUM_SIZE
             THEN [ret |-> Err(InvalidPublicKey), ec |-> <<>>]
             ELSE LET raw == SubSeq(s_hex.val, 1, PUBLIC_KEY_SIZE)
                      expected == LittleEndian_read_u32(SubSeq(Ripemd160(raw), 1, 4))
                      actual == LittleEndian_read_u32(
                                    SubSeq(s_hex.val, PUBLIC_KEY_SIZE + 1,
                                           PUBLIC_KEY_WITH_CHECKSUM_SIZE))
                  IN  IF expected # actual
                      THEN [ret |-> Err(BadChecksum(expected, actual)),
                            ec |-> <<"ripemd160">>]
                      ELSE LET key == ec_from_slice(raw)
                           IN  [ret |-> IF key.kind = "Ok"
                                        THEN Ok(PublicKey(TRUE, key.val)) ELSE key,
                                ec |-> <<"ripemd160", "parse_point">>]

\* From<&SecretKey>
from_secret(sk) == PublicKey(TRUE, derive_public(sk))


(***************************************************************************)
(* Inputs of the key layer                                                 *)
(***************************************************************************)
AllKeys == { PublicKey(c, p) : c \in BOOLEAN, p \in Points }

NotAPoint == Fill(PUBLIC_KEY_SIZE, 9)

SliceLens == {0, 1, 32, 33, 34, 37, 64, 65, 66}

SliceInputs ==
    { key_serialize(p) : p \in Points }
    \cup { key_serialize_uncompressed(p) : p \in Points }
    \cup { SubSeq(key_serialize(p), 1, 32) : p \in Points }
    \cup { key_serialize_uncompressed(p) \o <<0>> : p \in Points }
    \cup { Fill(n, 9) : n \in SliceLens }

WithChecksum(raw) == raw \o SubSeq(Ripemd160(raw), 1, PUBLIC_KEY_CHECKSUM_SIZE)
Bump(bytes, j) == [bytes EXCEPT ![j] = (@ + 1) % 256]
EosText(body) == EOS \o encode_slice(body)

\* where a byte of a valid 37-byte body is changed: in the key, in the checksum
TamperAt == {1, 2, 17, 33, 34, 37}

GoodBody(p) == WithChecksum(key_serialize(p))

\* valid encodings with one byte of the body changed
TamperedTexts == { EosText(Bump(GoodBody(p), j)) : p \in Points, j \in TamperAt }

\* bodies whose first 33 bytes are no curve point, checksum right and wrong
NotAPointTexts ==
    { EosText(WithChecksum(NotAPoint)), EosText(Bump(WithChecksum(NotAPoint), 37)),
      EosText(<<0>> \o Fill(36, 7)) }

NoTagTexts ==
    { encode_slice(GoodBody(p)) : p \in Points }
    \cup { <<"E", "O", "X">> \o encode_slice(GoodBody(p)) : p \in Points }
    \cup { <<>>, <<"E", "O">> }

WrongLengthTexts ==
    { EosText(SubSeq(GoodBody(p), 1, 36)) : p \in Points }
    \cup { EosText(GoodBody(p) \o <<0>>) : p \in Points }
    \cup { EosText(WithChecksum(key_serialize_uncompressed(p))) : p \in Points }
    \cup { EOS }

BadCharTexts ==
    { [EosText(GoodBody(p)) EXCEPT ![10] = "0"] : p \in Points }
    \cup { EosText(GoodBody(p)) \o <<"l">> : p \in Points }

StrInputs ==
    { EosText(GoodBody(p)) : p \in Points }
    \cup TamperedTexts \cup NotAPointTexts \cup NoTagTexts
    \cup WrongLengthTexts \cup BadCharTexts

Messages == { <<104, 101, 108, 108, 111>>, <<119, 111, 114, 108, 100>> }

Signatures ==
    { [recid |-> r, rs |-> EcSign(sk, Sha256(m))] :
         r \in {0, 1}, sk \in SecretKeys, m \in Messages }

\* 32-byte hashes, and slices that are no hash
HashInputs ==
    { Sha256(m) : m \in Messages }
    \cup { <<>>, Fill(31, 1), Fill(33, 1) }

\* the calls on the fixed inputs, made once
FromStrOf == [s \in StrInputs |-> from_str(s)]
FmtOf == [k \in AllKeys |-> fmt(k)]
EosFmtOf == [k \in AllKeys |-> to_eos_fmt(k)]

NoKey == [kind |-> "None"]

(***************************************************************************)
(* Actions of the key layer                                                *)
(***************************************************************************)
FromSecret ==
    /\ ~Panicked
    /\ \E sk \in SecretKeys :
          /\ pk' = Ok(from_secret(sk))
          /\ kcall' = [op |-> "from", arg |-> sk, ret |-> pk', ec |-> <<>>]
    /\ UNCHANGED hvars

FromSlice ==
    /\ ~Panicked
    /\ \E data \in SliceInputs :
          LET r == from_slice(data)
          IN  /\ kcall' = [op |-> "from_slice", arg |-> data, ret |-> r.ret, ec |-> r.ec]
              /\ pk' = IF r.ret.kind = "Ok" THEN r.ret ELSE pk
    /\ UNCHANGED hvars

\* from_str on a string from outside
ParseInput ==
    /\ ~Panicked
    /\ \E s \in StrInputs :
          LET r == FromStrOf[s]
          IN  /\ kcall' = [op |-> "from_str", src |-> "input", arg |-> s,
                            ret |-> r.ret, ec |-> r.ec]
              /\ pk' = IF r.ret.kind = "Ok" THEN r.ret ELSE pk
    /\ UNCHANGED hvars

\* from_str on the string the last call rendered
ParseRendered ==
    /\ ~Panicked
    /\ kcall.op \in {"to_string", "to_eos_fmt"}
    /\ kcall.ret.kind = "Ok"
    /\ LET r == from_str(kcall.ret.val)
       IN  /\ kcall' = [op |-> "from_str", src |-> "rendered", arg |-> kcall.ret.val,
                        ret |-> r.ret, ec |-> r.ec]
           /\ pk' = IF r.ret.kind = "Ok" THEN r.ret ELSE pk
    /\ UNCHANGED hvars

ToBytes ==
    /\ ~Panicked
    /\ pk.kind = "Ok"
    /\ kcall' = [op |-> "to_bytes", arg |-> pk.val, ret |-> Ok(to_bytes(pk.val)),
                 ec |-> <<>>]
    /\ UNCHANGED <<pk, hvars>>

ToEosFmt ==
    /\ ~Panicked
    /\ pk.kind = "Ok"
    /\ kcall' = [op |-> "to_eos_fmt", arg |-> pk.val, ret |-> EosFmtOf[pk.val],
                 ec |-> <<>>]
    /\ UNCHANGED <<pk, hvars>>

ToString ==
    /\ ~Panicked
    /\ pk.kind = "Ok"
    /\ kcall' = [op |-> "to_string", arg |-> pk.val, ret |-> FmtOf[pk.val],
                 ec |-> <<>>]
    /\ UNCHANGED <<pk, hvars>>

Verify ==
    /\ ~Panicked
    /\ pk.kind = "Ok"
    /\ \E m \in Messages, sig \in Signatures :
          kcall' = [op |-> "verify",
                    arg |-> [key |-> pk.val, message |-> m, signature |-> sig],
                    ret |-> verify(pk.val, m, sig), ec |-> <<>>]
    /\ UNCHANGED <<pk, hvars>>

VerifyHash ==
    /\ ~Panicked
    /\ pk.kind = "Ok"
    /\ \E h \in HashInputs, sig \in Signatures :
          kcall' = [op |-> "verify_hash",
                    arg |-> [key |-> pk.val, hash |-> h, signature |-> sig],
                    ret |-> verify_hash(pk.val, h, sig), ec |-> <<>>]
    /\ UNCHANGED <<pk, hvars>>

KeyNext ==
    \/ FromSecret \/ FromSlice \/ ParseInput \/ ParseRendered
    \/ ToBytes \/ ToEosFmt \/ ToString \/ Verify \/ VerifyHash

(***************************************************************************)
(* Specifications: the header layer and the key layer share no state and   *)
(* are explored one at a time                                              *)
(***************************************************************************)
Init ==
    /\ overflow_checks \in BOOLEAN
    /\ chain = <<>>
    /\ hcall = NoCall
    /\ pk = NoKey
    /\ kcall = NoCall

\* no arithmetic of the key layer can overflow: one build profile is enough
KeyInit == Init /\ overflow_checks

HeaderSpec == Init /\ [][HeaderNext]_vars
KeySpec == KeyInit /\ [][KeyNext]_vars

(***************************************************************************)
(* Properties of the header layer (checked under HeaderSpec)               *)
(***************************************************************************)
HeaderAt(i) == chain[i]

\* C1: whenever id(h) succeeds, the block number read back from it by
\* num_from_id is the number block_num(h) returns, for both header types and
\* whatever the digest bytes are.
C1_NumFromIdOfId ==
    hcall.op = "num_from_id" => hcall.ret = HeaderBlockNum(HeaderAt(hcall.at))

\* a block number was read back from an id whose digest had non-zero low bytes
C1_Witness ==
    /\ hcall.op = "num_from_id"
    /\ hcall.ret.val = <<0, 0, 1, 0>>
    /\ SubSeq(HeaderDigest(HeaderAt(hcall.at)).val, 1, 4) # Zeros(4)

\* the block number after n in u32 arithmetic, wrapping at the top
WrappingSucc(n) == AddDigits(n, U32One).digits

\* C2: for two headers with h2.previous = id(h1), block_num(h2) is
\* block_num(h1) + 1, for every block number h1.previous can embed.  Stated in
\* its weakest reading: both calls return, and the sum is taken in u32.
C2_ChainLinkage ==
    \A i \in 1..(Len(chain) - 1) :
        (/\ HeaderId(chain[i]).kind = "Ok"
         /\ chain[i + 1].previous = HeaderId(chain[i]).val)
        => /\ HeaderBlockNum(chain[i]).kind = "Ok"
           /\ HeaderBlockNum(chain[i + 1]).kind = "Ok"
           /\ HeaderBlockNum(chain[i + 1]).val
                 = WrappingSucc(HeaderBlockNum(chain[i]).val)

\* C10: id(h) differs from digest(h) in its first four bytes only: they are
\* block_num(h) written big-endian, and bytes 5..32 are those of the digest.
C10_IdKeepsDigestTail ==
    (hcall.op = "id" /\ hcall.ret.kind = "Ok")
    => LET h == HeaderAt(hcall.at)
       IN  /\ Ok(SubSeq(hcall.ret.val, 1, 4)) = HeaderBlockNum(h)
           /\ \A i \in 5..32 : hcall.ret.val[i] = HeaderDigest(h).val[i]

\* an id was built that carries the largest block number over a digest whose
\* bytes 5..8 are not zero
C10_Witness ==
    /\ hcall.op = "id"
    /\ hcall.ret.kind = "Ok"
    /\ SubSeq(hcall.ret.val, 1, 4) = <<255, 255, 255, 255>>
    /\ SubSeq(HeaderDigest(HeaderAt(hcall.at)).val, 5, 8) # Zeros(4)


(***************************************************************************)
(* Properties of the key layer (checked under KeySpec)                     *)
(***************************************************************************)
CompressedKeys == { k \in AllKeys : k.compressed }

\* C3: for every compressed key k, from_str(k.to_string()) succeeds with a key
\* equal to k (same point, compressed), and rendering that key again gives the
\* same string.
C3_TextRoundTrip ==
    \A k \in CompressedKeys :
        (kcall.op = "from_str" /\ Ok(kcall.arg) = FmtOf[k])
        => /\ kcall.ret = Ok(k)
           /\ FmtOf[kcall.ret.val] = Ok(kcall.arg)

\* a key was rendered by to_string and the string parsed back
C3_Witness ==
    /\ kcall.op = "from_str"
    /\ kcall.src = "rendered"
    /\ kcall.ret.kind = "Ok"
    /\ \E k \in CompressedKeys : Ok(kcall.arg) = FmtOf[k] /\ pk = Ok(k)

\* C4: from_slice fails with InvalidLength(len) for every length other than 33
\* and 65, without asking the curve library; a success on 33 bytes is a
\* compressed key and on 65 bytes an uncompressed one, and to_bytes of the
\* result is as long as the input.
C4_FromSliceLength ==
    kcall.op = "from_slice"
    => LET n == Len(kcall.arg)
       IN  /\ n \notin {33, 65}
                => kcall.ret = Err(InvalidLength(n)) /\ kcall.ec = <<>>
           /\ kcall.ret.kind = "Ok"
                => /\ n = 33 => kcall.ret.val.compressed
                   /\ n = 65 => ~kcall.ret.val.compressed
                   /\ Len(to_bytes(kcall.ret.val)) = n

\* a slice of 37 bytes, the length of a key with its checksum, was refused
C4_Witness ==
    /\ kcall.op = "from_slice"
    /\ Len(kcall.arg) = 37
    /\ kcall.ret.kind = "Err"

\* the u32 a little-endian read of four bytes gives
LEValue(b) == <<b[4], b[3], b[2], b[1]>>

\* the 37-byte bodies among the inputs whose last four bytes are not the
\* checksum of their first 33, each with its text
MismatchBodies ==
    { b \in { Bump(GoodBody(p), j) : p \in Points, j \in TamperAt }
            \cup { WithChecksum(NotAPoint), Bump(WithChecksum(NotAPoint), 37),
                   <<0>> \o Fill(36, 7) }
            \cup { GoodBody(p) : p \in Points } :
        SubSeq(b, 34, 37) # SubSeq(Ripemd160(SubSeq(b, 1, 33)), 1, 4) }

MismatchText == [b \in MismatchBodies |-> EosText(b)]

\* C5: from_str on "EOS" + Base58(body), body of 37 bytes whose last four
\* differ from the first four of RIPEMD-160(body[0..33]), fails with
\* BadChecksum(expected, actual), whether or not body[0..33] is a curve point:
\* the curve library is not asked.
C5_BadChecksum ==
    \A b \in MismatchBodies :
        (kcall.op = "from_str" /\ kcall.arg = MismatchText[b])
        => /\ kcall.ret = Err(BadChecksum(LEValue(Ripemd160(SubSeq(b, 1, 33))),
                                          LEValue(SubSeq(b, 34, 37))))
           /\ \A i \in 1..Len(kcall.ec) : kcall.ec[i] # "parse_point"

\* a body that is no curve point and has a wrong checksum was parsed
C5_Witness ==
    /\ kcall.op = "from_str"
    /\ kcall.arg = EosText(Bump(WithChecksum(NotAPoint), 37))
    /\ kcall.ret.kind = "Err"

\* the failure an input string is made to show
FailureInputs(class) ==
    CASE class = "tag" -> NoTagTexts
      [] class = "length" -> WrongLengthTexts
      [] class = "checksum" -> { MismatchText[b] : b \in MismatchBodies }
      [] class = "character" -> BadCharTexts

FailureClasses == {"tag", "length", "checksum", "character"}

ErrorTag(e) == <<e[1], e[2]>>

\* C6 as claimed: the error of each of the four failures can be told apart
\* from the errors of the other three.
C6_DistinctErrors ==
    \A c \in FailureClasses :
        (kcall.op = "from_str" /\ kcall.arg \in FailureInputs(c))
        => /\ kcall.ret.kind = "Err"
           /\ \A d \in FailureClasses \ {c} : \A s \in FailureInputs(d) :
                 ErrorTag(FromStrOf[s].ret.err) # ErrorTag(kcall.ret.err)

\* the error each failure gives in the code
ErrorOf(class) ==
    CASE class = "tag" -> <<"Secp256k1", "InvalidPublicKey">>
      [] class = "length" -> <<"Secp256k1", "InvalidPublicKey">>
      [] class = "checksum" -> <<"Base58", "BadChecksum">>
      [] class = "character" -> <<"Base58", "BadByte">>

\* C6 amended: a missing tag and a wrong decoded length both give
\* Secp256k1(InvalidPublicKey); a checksum mismatch gives Base58(BadChecksum)
\* and an invalid character Base58(BadByte), each unlike the other two.
C6_ErrorVariants ==
    \A c \in FailureClasses :
        (kcall.op = "from_str" /\ kcall.arg \in FailureInputs(c))
        => /\ kcall.ret.kind = "Err"
           /\ ErrorTag(kcall.ret.err) = ErrorOf(c)

\* a string with the tag and a body of the wrong decoded length was parsed
C6_Witness ==
    /\ kcall.op = "from_str"
    /\ kcall.arg \in WrongLengthTexts
    /\ Len(kcall.arg) > 40
    /\ kcall.ret = Err(InvalidPublicKey)

\* C7: verify_hash returns Ok or Err for every hash slice, whatever its
\* length; it does not panic.
C7_VerifyHashReturns ==
    kcall.op = "verify_hash" => kcall.ret.kind \in {"Ok", "Err"}

\* C8: for every key, compressed or not, to_eos_fmt returns "EOS" followed by
\* Base58(raw ++ c), raw = to_bytes(k), c = the first four bytes of
\* RIPEMD-160(raw).
C8_EosFmt ==
    kcall.op = "to_eos_fmt"
    => LET raw == to_bytes(kcall.arg)
       IN  kcall.ret = Ok(EOS \o encode_slice(raw \o SubSeq(Ripemd160(raw), 1, 4)))

\* C9: verify(message, signature) is Ok exactly when the curve library accepts
\* signature.to_standard() over SHA-256(message) under the key, and is
\* Err(IncorrectSignature) otherwise; that is the result of
\* verify_hash(SHA-256(message), signature); the result depends on nothing but
\* the three inputs, and the key held is the key the call was made on.
C9_Verify ==
    kcall.op = "verify"
    => LET a == kcall.arg
           accepted == EcSign(SecretOf(a.key.key), Sha256(a.message)) = a.signature.rs
       IN  /\ kcall.ret = IF accepted THEN Ok(<<>>) ELSE Err(IncorrectSignature)
           /\ kcall.ret = verify_hash(a.key, Sha256(a.message), a.signature)
           /\ pk = Ok(a.key)
           /\ a.signature \in Signatures

\* a signature was verified and accepted
C9_Witness ==
    /\ kcall.op = "verify"
    /\ kcall.ret.kind = "Ok"
    /\ kcall.arg.signature.recid = 1

====
